---- MODULE Spec2Model ----
(***************************************************************************)
(* Model of the Cachet agent (src/agent.py): configuration parsing and    *)
(* entity resolution at construction, the SpringBoot health probe, and    *)
(* the run loop that pushes component status to the status page.          *)
(*                                                                         *)
(* A Python str is a finite sequence over an alphabet of atoms (TLA+      *)
(* strings that are never taken apart); "==" on str is sequence           *)
(* equality, "+" is \o, "in" on two strs is the substring test.           *)
(***************************************************************************)
EXTENDS Naturals, Sequences, FiniteSets

(***************************************************************************)
(* Bounds of the model.                                                    *)
(***************************************************************************)
\* longest configuration (number of lines) that Init draws
MaxLines == 2
\* longest configuration file drawn when every combination of command-line
\* flags and environment variables is tried
MaxMainLines == 1

(***************************************************************************)
(* Python str operations used by the agent.                                *)
(***************************************************************************)
Whitespace == {" ", "\t", "\r", "\n"}

RECURSIVE LStrip(_)
LStrip(s) ==
  IF s # <<>> /\ Head(s) \in Whitespace THEN LStrip(Tail(s)) ELSE s

RECURSIVE RStrip(_)
RStrip(s) ==
  IF s # <<>> /\ s[Len(s)] \in Whitespace
    THEN RStrip(SubSeq(s, 1, Len(s) - 1))
    ELSE s

\* str.strip()
Strip(s) == RStrip(LStrip(s))

\* str.split(sep) for a one-atom separator: always at least one field
RECURSIVE SplitFrom(_, _, _)
SplitFrom(s, sep, cur) ==
  IF s = <<>> THEN <<cur>>
  ELSE IF Head(s) = sep THEN <<cur>> \o SplitFrom(Tail(s), sep, <<>>)
  ELSE SplitFrom(Tail(s), sep, Append(cur, Head(s)))

Split(s, sep) == SplitFrom(s, sep, <<>>)

\* list(map(str.strip, fields))
MapStrip(fields) == [k \in 1..Len(fields) |-> Strip(fields[k])]

\* "a in b" for two strs: b has a as a contiguous substring
IsSubstring(a, b) ==
  \E k \in 1..(Len(b) + 1) :
    /\ k + Len(a) - 1 <= Len(b)
    /\ SubSeq(b, k, k + Len(a) - 1) = a

\* seq[n:]
DropFirst(seq, n) == SubSeq(seq, n + 1, Len(seq))

(***************************************************************************)
(* Status codes of the status page and the str literals of the probe.      *)
(***************************************************************************)
Operational == 1
PartialOutage == 3
MajorOutage == 4

UP == <<"UP">>
STATUS == <<"status">>

(***************************************************************************)
(* A parsed JSON value (the result of r.json()): a str, a number, or an    *)
(* object, which is a dict in insertion order, i.e. a sequence of          *)
(* [k, v] entries with distinct keys.                                      *)
(***************************************************************************)
JStr(s) == [t |-> "str", s |-> s, f |-> <<>>]
JNum == [t |-> "num", s |-> <<>>, f |-> <<>>]
JObj(f) == [t |-> "obj", s |-> <<>>, f |-> f]
Entry(k, v) == [k |-> k, v |-> v]

\* key in dict
HasKey(obj, key) == \E n \in 1..Len(obj.f) : obj.f[n].k = key

\* dict[key], for a key the dict has
Lookup(obj, key) ==
  obj.f[CHOOSE n \in 1..Len(obj.f) : obj.f[n].k = key].v

(***************************************************************************)
(* The outcome of a call: a returned (state, description) pair, or an      *)
(* exception that leaves the call, with str(err) in text.                  *)
(***************************************************************************)
Returned(state, description) ==
  [raised |-> FALSE, state |-> state, text |-> description]

Raised(msg) == [raised |-> TRUE, state |-> 0, text |-> msg]

(***************************************************************************)
(* SpringBootProbe.check.                                                  *)
(***************************************************************************)
\* 'status' in value: TRUE, FALSE, or a TypeError
StatusIn(value) ==
  CASE value.t = "obj" -> IF HasKey(value, STATUS) THEN "yes" ELSE "no"
    [] value.t = "str" -> IF IsSubstring(STATUS, value.s) THEN "yes" ELSE "no"
    [] OTHER -> "TypeError"

\* the for loop over data.items(), from entry n on, with the loop's locals
RECURSIVE CheckItems(_, _, _, _)
CheckItems(f, n, description, all_up) ==
  IF n > Len(f)
    THEN [raised |-> FALSE, text |-> description, all_up |-> all_up]
  ELSE
    LET key == f[n].k
        value == f[n].v
        has == StatusIn(value)
    IN  IF has = "TypeError"
          THEN [raised |-> TRUE,
                text |-> <<"argument of type 'int' is not iterable">>,
                all_up |-> all_up]
        ELSE IF has = "no"
          THEN CheckItems(f, n + 1, description, all_up)
        ELSE IF value.t # "obj"
          THEN [raised |-> TRUE,
                text |-> <<"string indices must be integers">>,
                all_up |-> all_up]
        ELSE
          LET status == Lookup(value, STATUS)
          IN  IF status.t # "str"
                THEN [raised |-> TRUE,
                      text |-> <<"must be str, not int">>,
                      all_up |-> all_up]
              ELSE CheckItems(f, n + 1,
                     description \o key \o <<": ">> \o status.s \o <<"\n">>,
                     all_up /\ status.s = UP)

\* lines 173-192: r.json() has returned data
CheckData(data) ==
  IF data.t # "obj"
    THEN Raised(<<"object has no attribute 'items'">>)
  ELSE
    LET loop == CheckItems(data.f, 1, <<>>, TRUE)
    IN  IF loop.raised THEN Raised(loop.text)
        ELSE IF ~HasKey(data, STATUS) THEN Raised(<<"'status'">>)
        ELSE
          LET core_status == Lookup(data, STATUS)
          IN  IF core_status.t # "str"
                THEN Raised(<<"must be str, not int">>)
              ELSE
                LET all_up == loop.all_up /\ core_status.s = UP
                    description ==
                      <<"Core: ">> \o core_status.s \o <<"\n">> \o loop.text
                IN  Returned(IF all_up THEN Operational ELSE PartialOutage,
                             description)

(***************************************************************************)
(* What the GET of the health URL can do: fail in transport (requests      *)
(* raises a RequestException), answer with a body r.json() cannot parse,   *)
(* or answer with a body that parses to data.  The error r.json() raises   *)
(* for an unparseable body is a RequestException in some releases of       *)
(* requests and a plain ValueError in others: json_error_caught says       *)
(* which.                                                                  *)
(***************************************************************************)
HttpError(msg) == [kind |-> "error", msg |-> msg, data |-> JNum]
HttpUnparseable(msg) == [kind |-> "unparseable", msg |-> msg, data |-> JNum]
HttpJson(data) == [kind |-> "json", msg |-> <<>>, data |-> data]

\* check() without its except clause: the RequestException escapes
SpringBootCheckNoExcept(http, json_error_caught) ==
  CASE http.kind = "error" -> Raised(http.msg)
    [] http.kind = "unparseable" -> Raised(http.msg)
    [] OTHER -> CheckData(http.data)

SpringBootCheck(http, json_error_caught) ==
  CASE http.kind = "error" -> Returned(MajorOutage, http.msg)
    [] http.kind = "unparseable" ->
         IF json_error_caught THEN Returned(MajorOutage, http.msg)
                              ELSE Raised(http.msg)
    [] OTHER -> CheckData(http.data)

(***************************************************************************)
(* The health endpoint's answers the model draws from.                     *)
(***************************************************************************)
Sub(status) == JObj(<<Entry(STATUS, JStr(status))>>)

HealthOutcomes ==
  { HttpError(<<"Connection refused">>),
    HttpError(<<"Read timed out">>),
    HttpUnparseable(<<"Expecting value">>),
    HttpJson(JNum),
    HttpJson(JObj(<<Entry(STATUS, JStr(UP))>>)),
    HttpJson(JObj(<<Entry(STATUS, JStr(UP)), Entry(<<"db">>, Sub(UP))>>)),
    HttpJson(JObj(<<Entry(<<"db">>, Sub(<<"DOWN">>)), Entry(STATUS, JStr(UP))>>)),
    HttpJson(JObj(<<Entry(STATUS, JStr(<<"DOWN">>)), Entry(<<"db">>, Sub(UP))>>)),
    HttpJson(JObj(<<Entry(STATUS, JStr(UP)), Entry(<<"db">>, Sub(UP)),
                    Entry(<<"info">>, JObj(<<Entry(<<"version">>, JNum)>>)),
                    Entry(<<"disk">>, Sub(<<"DOWN">>))>>)),
    HttpJson(JObj(<<Entry(<<"db">>, Sub(UP))>>)),
    HttpJson(JObj(<<Entry(STATUS, JStr(UP)), Entry(<<"uptime">>, JNum)>>)),
    HttpJson(JObj(<<Entry(STATUS, JStr(<<"no-", "status">>))>>)) }

(***************************************************************************)
(* Configuration lines.                                                    *)
(***************************************************************************)
SpringBoot == <<"SpringBoot">>

ConfLines ==
  { <<>>,
    <<" ", "\n">>,
    <<"#", "G1", ",", "C1", ",", "SpringBoot", ",", "u1">>,
    <<"G1", ",", "C1", ",", "SpringBoot", ",", "u1", "\n">>,
    <<"G1", ",", "C1", ",", "SpringBoot", ",", "u2">>,
    <<" ", "G1", " ", ",", " ", "C2", ",", "SpringBoot", ",", " ", "u2", "\n">>,
    <<"G1", ",", "C1">>,
    <<" ", ",", "C1", ",", "SpringBoot", ",", "u1">>,
    <<"G2", ",", " ", ",", "SpringBoot", ",", "u1">>,
    <<"G2", ",", "C1", ",", "Ping", ",", "u1">>,
    <<"G1", ",", "C2", ",", "SpringBoot">>,
    <<"G1", ",", "C2", ",", "SpringBoot", ",", " ">> }

Configurations == UNION {[1..n -> ConfLines] : n \in 0..MaxLines}
MainConfigurations == UNION {[1..n -> ConfLines] : n \in 0..MaxMainLines}

\* re.split('[\r\n]+', text): the fields between the runs of CR and LF
RECURSIVE ReSplitFrom(_, _, _)
ReSplitFrom(s, field, in_run) ==
  IF s = <<>> THEN <<field>>
  ELSE IF Head(s) \in {"\r", "\n"}
    THEN IF in_run THEN ReSplitFrom(Tail(s), field, TRUE)
                   ELSE <<field>> \o ReSplitFrom(Tail(s), <<>>, TRUE)
  ELSE ReSplitFrom(Tail(s), Append(field, Head(s)), FALSE)

ReSplitNewlines(text) == ReSplitFrom(text, <<>>, FALSE)

\* values of the AGENT_CONFIGURATION environment variable
DataBlocks ==
  { <<>>,
    <<"\n", "\r", "\n">>,
    <<"#", " ", "c", "\r", "\n", " ", "\t", "\n",
      "#", "G1", ",", "C1", ",", "SpringBoot", ",", "u1">>,
    <<"G1", ",", "C1", ",", "SpringBoot", ",", "u1", "\n",
      "G1", ",", "C2", ",", "SpringBoot", ",", "u2", "\n">>,
    <<"#", "c", "\r", "\n", "G1", ",", "C1", ",", "SpringBoot", ",", "u1",
      "\r", "\n", "G2", ",", "C1", ",", "Ping", ",", "u1">> }

(***************************************************************************)
(* The command line and the environment main() is started with.  A value   *)
(* that may be None is [set, val].                                         *)
(***************************************************************************)
None == [set |-> FALSE, val |-> <<>>]
Some(v) == [set |-> TRUE, val |-> v]

Invocation(flag_endpoint, flag_token, env_endpoint, env_token, env_conf) ==
  [args |-> [endpoint |-> flag_endpoint, api_token |-> flag_token],
   environ |-> [CACHET_ENDPOINT |-> env_endpoint,
                CACHET_API_TOKEN |-> env_token,
                AGENT_CONFIGURATION |-> env_conf]]

\* every combination of flags and variables, the configuration in a file
AllInvocations ==
  { Invocation(fe, ft, ee, et, None) :
      fe \in {None, Some(<<"http://flag">>)},
      ft \in {None, Some(<<"flag-token">>)},
      ee \in {None, Some(<<"http://env">>)},
      et \in {None, Some(<<"env-token">>)} }

\* endpoint and token given: by flags with the configuration in a file, or
\* one by flag and one by variable with the configuration in the environment
GivenInvocations ==
  { Invocation(Some(<<"http://flag">>), Some(<<"flag-token">>), None, None, None) }
  \cup
  { Invocation(Some(<<"http://flag">>), None, None, Some(<<"env-token">>), Some(b)) :
      b \in DataBlocks }

\* what the status page holds when the agent starts
RemoteInits ==
  { [groups |-> <<>>, components |-> <<>>],
    [groups |-> <<[id |-> 1, name |-> <<"G1">>]>>,
     components |-> <<[id |-> 1, name |-> <<"C1">>, group_id |-> 1]>>] }

(***************************************************************************)
(* State.                                                                  *)
(***************************************************************************)
VARIABLES
  conf,              \* the configuration, line by line
  lineIdx,           \* the line _create_probes is at
  pc,                \* where the process is
  group_cache,       \* self._group_cache: group name -> id
  probes,            \* self._probes: a dict in insertion order, [id, probe]
  group_id,          \* _create_probe's local
  component_id,      \* _create_probe's local
  remoteGroups,      \* the status page's groups, [id, name]
  nextGroupId,       \* the id the status page gives its next group
  remoteComponents,  \* the status page's components, [id, name, group_id]
  apiLog,            \* history: the group and component calls issued
  resolved,          \* history: what each resolution returned
  i,                 \* position of the for loop in probes
  cur,               \* history: the current entry's check and its outcome
  puts,              \* history: the update calls issued since that check
  nChecks,           \* history: checks per component id, this iteration
  nUpdates,          \* history: update calls per component id, this iteration
  err,               \* the exception caught or escaping
  exitCode,          \* the process's exit status once it has exited
  args,              \* the parsed command line: endpoint, api_token
  environ,           \* os.environ: the three variables main() reads
  endpoint,          \* self.ENDPOINT
  api_token          \* self.API_TOKEN

vars ==
  <<conf, lineIdx, pc, group_cache, probes, group_id, component_id,
    remoteGroups, nextGroupId, remoteComponents, apiLog, resolved,
    i, cur, puts, nChecks, nUpdates, err, exitCode,
    args, environ, endpoint, api_token>>

mainVars == <<args, environ, endpoint, api_token>>
startupVars ==
  <<conf, lineIdx, group_cache, probes, group_id, component_id, mainVars>>
remoteVars == <<remoteGroups, nextGroupId, remoteComponents>>
loopVars == <<i, cur, puts, nChecks, nUpdates>>

EmptyMap == [x \in {} |-> 0]
NoCheck == [id |-> 0, http |-> HttpJson(JNum), res |-> Raised(<<>>)]
NoError == <<>>

StartupPcs == {"main", "line", "group", "component", "probe"}
LoopPcs == {"check", "update", "except", "sleep"}

\* the lines _create_probes will read: those of the data block when
\* AGENT_CONFIGURATION is set (lines 45, 60), else those of the file (line 54)
LinesRead(env, files) ==
  IF env.AGENT_CONFIGURATION.set
    THEN {ReSplitNewlines(env.AGENT_CONFIGURATION.val)}
    ELSE files

InitWith(invocations, files) ==
  /\ \E inv \in invocations :
       /\ args = inv.args
       /\ environ = inv.environ
       /\ conf \in LinesRead(inv.environ, files)
  /\ endpoint = None
  /\ api_token = None
  /\ lineIdx = 1
  /\ pc = "main"
  /\ group_cache = EmptyMap
  /\ probes = <<>>
  /\ group_id = 0
  /\ component_id = 0
  /\ \E r \in RemoteInits :
       /\ remoteGroups = r.groups
       /\ nextGroupId = Len(r.groups) + 1
       /\ remoteComponents = r.components
  /\ apiLog = <<>>
  /\ resolved = <<>>
  /\ i = 0
  /\ cur = NoCheck
  /\ puts = <<>>
  /\ nChecks = EmptyMap
  /\ nUpdates = EmptyMap
  /\ err = NoError
  /\ exitCode = 0

Init == InitWith(GivenInvocations, Configurations)

MainInit == InitWith(AllInvocations, MainConfigurations)

(***************************************************************************)
(* main(): the parameters, then the agent.                                 *)
(***************************************************************************)
\* first_val(a, b), lines 213-216
FirstVal(a, b) == IF a.set THEN a ELSE IF b.set THEN b ELSE None

\* process_params(args), lines 218-220
Params ==
  [endpoint |-> FirstVal(environ.CACHET_ENDPOINT, args.endpoint),
   apiToken |-> FirstVal(environ.CACHET_API_TOKEN, args.api_token)]

\* main() without its two tests for a missing parameter
MainUnchecked ==
  /\ pc = "main"
  /\ endpoint' = Params.endpoint
  /\ api_token' = Params.apiToken
  /\ pc' = "line"
  /\ UNCHANGED <<conf, lineIdx, group_cache, probes, group_id, component_id>>
  /\ UNCHANGED <<args, environ, remoteVars, apiLog, resolved, loopVars, err, exitCode>>

\* lines 246-252: exit_on_error, or CachetAgent(...) is entered
Main ==
  /\ pc = "main"
  /\ IF ~Params.endpoint.set \/ ~Params.apiToken.set
       THEN /\ pc' = "exit"
            /\ exitCode' = 1
            /\ UNCHANGED <<endpoint, api_token>>
       ELSE /\ endpoint' = Params.endpoint
            /\ api_token' = Params.apiToken
            /\ pc' = "line"
            /\ UNCHANGED exitCode
  /\ UNCHANGED <<conf, lineIdx, group_cache, probes, group_id, component_id>>
  /\ UNCHANGED <<args, environ, remoteVars, apiLog, resolved, loopVars, err>>

(***************************************************************************)
(* Construction: _create_probes reads the configuration line by line.      *)
(***************************************************************************)
\* line 66 without its test for a comment
IsSkippedBlankOnly(agent_conf) == Len(agent_conf) = 0

\* line 66: a comment or an empty line
IsSkipped(agent_conf) == Len(agent_conf) = 0 \/ agent_conf[1] = "#"

\* line 70
ConfigParts(agent_conf) == MapStrip(Split(agent_conf, ","))

\* the stripped line _create_probe is called with, and its fields
AgentConf == Strip(conf[lineIdx])
Parts == ConfigParts(AgentConf)

\* a call of the status page's API on a group or a component
Call(op, name, gid, ok) == [op |-> op, name |-> name, group_id |-> gid, ok |-> ok]

\* the exception is caught and logged, and construction goes on
AbortStartupContinue(msg) ==
  /\ pc' = "line"
  /\ err' = msg
  /\ exitCode' = exitCode

\* an exception leaves the constructor: the process ends with a traceback
AbortStartup(msg) ==
  /\ pc' = "aborted"
  /\ err' = msg
  /\ exitCode' = 1

\* d[k] = v on a dict in insertion order
\* a slip in line 50: an id already in the registry keeps its first probe
DictSetKeepFirst(d, k, v) ==
  IF \E n \in 1..Len(d) : d[n].id = k
    THEN d
    ELSE Append(d, [id |-> k, probe |-> v])

DictSet(d, k, v) ==
  IF \E n \in 1..Len(d) : d[n].id = k
    THEN [n \in 1..Len(d) |-> IF d[n].id = k THEN [id |-> k, probe |-> v] ELSE d[n]]
    ELSE Append(d, [id |-> k, probe |-> v])

MapSet(m, k, v) == [x \in DOMAIN m \cup {k} |-> IF x = k THEN v ELSE m[x]]

\* lines 54-57 and 60-63, then lines 66-74 of _create_probe
ReadLine ==
  /\ pc = "line"
  /\ lineIdx <= Len(conf)
  /\ IF IsSkipped(AgentConf)
       THEN /\ lineIdx' = lineIdx + 1
            /\ UNCHANGED <<pc, err, exitCode>>
       ELSE IF Len(Parts) < 3
         THEN /\ AbortStartup(<<"list index out of range">>)
              /\ UNCHANGED lineIdx
         ELSE /\ pc' = "group"
              /\ UNCHANGED <<lineIdx, err, exitCode>>
  /\ UNCHANGED <<conf, group_cache, probes, group_id, component_id>>
  /\ UNCHANGED <<remoteVars, apiLog, resolved, loopVars, mainVars>>

\* groups.get(params={'name': group_name}): the groups of that name
GroupsNamed(name) ==
  LET Match(g) == g.name = name IN SelectSeq(remoteGroups, Match)

\* a slip in _get_or_create_group: the cache is never consulted
InGroupCacheNever(name) == FALSE

\* line 89: group_name in self._group_cache
InGroupCache(name) == name \in DOMAIN group_cache

\* _get_or_create_group(config_parts[0]), lines 85-111
GetOrCreateGroup ==
  /\ pc = "group"
  /\ LET group_name == Parts[1]
         found == GroupsNamed(group_name)
     IN
       \/ /\ Len(group_name) = 0
          /\ AbortStartup(<<"Invalid group name">>)
          /\ UNCHANGED <<group_cache, group_id, remoteVars, apiLog>>
       \/ /\ Len(group_name) # 0
          /\ InGroupCache(group_name)
          /\ group_id' = group_cache[group_name]
          /\ pc' = "component"
          /\ UNCHANGED <<group_cache, remoteVars, apiLog, err, exitCode>>
       \/ /\ Len(group_name) # 0
          /\ ~InGroupCache(group_name)
          /\ apiLog' = Append(apiLog, Call("groups.get", group_name, 0, FALSE))
          /\ AbortStartup(<<"groups.get failed">>)
          /\ UNCHANGED <<group_cache, group_id, remoteVars>>
       \/ /\ Len(group_name) # 0
          /\ ~InGroupCache(group_name)
          /\ Len(found) > 0
          /\ apiLog' = Append(apiLog, Call("groups.get", group_name, 0, TRUE))
          /\ group_cache' = MapSet(group_cache, group_name, found[1].id)
          /\ group_id' = found[1].id
          /\ pc' = "component"
          /\ UNCHANGED <<remoteVars, err, exitCode>>
       \/ /\ Len(group_name) # 0
          /\ ~InGroupCache(group_name)
          /\ Len(found) = 0
          /\ apiLog' = apiLog \o <<Call("groups.get", group_name, 0, TRUE),
                                   Call("groups.post", group_name, 0, FALSE)>>
          /\ AbortStartup(<<"groups.post failed">>)
          /\ UNCHANGED <<group_cache, group_id, remoteVars>>
       \/ /\ Len(group_name) # 0
          /\ ~InGroupCache(group_name)
          /\ Len(found) = 0
          /\ apiLog' = apiLog \o <<Call("groups.get", group_name, 0, TRUE),
                                   Call("groups.post", group_name, 0, TRUE)>>
          /\ remoteGroups' =
               Append(remoteGroups, [id |-> nextGroupId, name |-> group_name])
          /\ nextGroupId' = nextGroupId + 1
          /\ group_cache' = MapSet(group_cache, group_name, nextGroupId)
          /\ group_id' = nextGroupId
          /\ pc' = "component"
          /\ UNCHANGED <<remoteComponents, err, exitCode>>
  /\ UNCHANGED <<conf, lineIdx, probes, component_id, resolved, loopVars, mainVars>>

\* a slip in _get_or_create_component: the existing components are not found
ComponentsNamedNotFound(name, gid) == <<>>

\* components.get(params={'name': ..., 'group_id': ...})
ComponentsNamed(name, gid) ==
  LET Match(c) == c.name = name /\ c.group_id = gid
  IN  SelectSeq(remoteComponents, Match)

Resolution(group_name, component_name, gid, cid) ==
  [group |-> group_name, component |-> component_name,
   group_id |-> gid, component_id |-> cid]

\* _get_or_create_component(group_id, config_parts[1]), lines 113-132
GetOrCreateComponent ==
  /\ pc = "component"
  /\ LET component_name == Parts[2]
         found == ComponentsNamed(component_name, group_id)
         new_id == Len(remoteComponents) + 1
     IN
       \/ /\ Len(component_name) = 0
          /\ AbortStartup(<<"Invalid component name">>)
          /\ UNCHANGED <<component_id, remoteComponents, apiLog, resolved>>
       \/ /\ Len(component_name) # 0
          /\ apiLog' =
               Append(apiLog, Call("components.get", component_name, group_id, FALSE))
          /\ AbortStartup(<<"components.get failed">>)
          /\ UNCHANGED <<component_id, remoteComponents, resolved>>
       \/ /\ Len(component_name) # 0
          /\ Len(found) > 0
          /\ apiLog' =
               Append(apiLog, Call("components.get", component_name, group_id, TRUE))
          /\ component_id' = found[1].id
          /\ resolved' = Append(resolved,
               Resolution(Parts[1], component_name, group_id, found[1].id))
          /\ pc' = "probe"
          /\ UNCHANGED <<remoteComponents, err, exitCode>>
       \/ /\ Len(component_name) # 0
          /\ Len(found) = 0
          /\ apiLog' = apiLog \o
               <<Call("components.get", component_name, group_id, TRUE),
                 Call("components.post", component_name, group_id, FALSE)>>
          /\ AbortStartup(<<"components.post failed">>)
          /\ UNCHANGED <<component_id, remoteComponents, resolved>>
       \/ /\ Len(component_name) # 0
          /\ Len(found) = 0
          /\ apiLog' = apiLog \o
               <<Call("components.get", component_name, group_id, TRUE),
                 Call("components.post", component_name, group_id, TRUE)>>
          /\ remoteComponents' = Append(remoteComponents,
               [id |-> new_id, name |-> component_name, group_id |-> group_id])
          /\ component_id' = new_id
          /\ resolved' = Append(resolved,
               Resolution(Parts[1], component_name, group_id, new_id))
          /\ pc' = "probe"
          /\ UNCHANGED <<err, exitCode>>
  /\ UNCHANGED <<conf, lineIdx, group_cache, probes, group_id>>
  /\ UNCHANGED <<remoteGroups, nextGroupId, loopVars, mainVars>>

\* SpringBootProbe.__init__ without its test for an empty URL
SpringBootProbeAnyUrl(params) ==
  IF Len(params) = 0
    THEN [raised |-> TRUE, text |-> <<"list index out of range">>,
          check_url |-> <<>>]
    ELSE [raised |-> FALSE, text |-> <<>>, check_url |-> Strip(params[1])]

\* SpringBootProbe.__init__(params), lines 161-165: the probe, or the error
SpringBootProbe(params) ==
  IF Len(params) = 0
    THEN [raised |-> TRUE, text |-> <<"list index out of range">>,
          check_url |-> <<>>]
  ELSE IF Len(Strip(params[1])) = 0
    THEN [raised |-> TRUE, text |-> <<"Invalid URL">>, check_url |-> <<>>]
  ELSE [raised |-> FALSE, text |-> <<>>, check_url |-> Strip(params[1])]

\* lines 79-83 of _create_probe: the probe for the line's fields, or the error
ProbeFor(config_parts) ==
  IF config_parts[3] = SpringBoot
    THEN SpringBootProbe(DropFirst(config_parts, 3))
    ELSE [raised |-> TRUE,
          text |-> <<"Unsupported probe ">> \o config_parts[3],
          check_url |-> <<>>]

\* lines 79-83, then the yield and lines 48-50 of _create_probes
CreateProbe ==
  /\ pc = "probe"
  /\ LET probe == ProbeFor(Parts)
     IN  IF probe.raised
           THEN /\ AbortStartup(probe.text)
                /\ UNCHANGED <<probes, lineIdx>>
           ELSE /\ probes' =
                     DictSet(probes, component_id, [check_url |-> probe.check_url])
                /\ lineIdx' = lineIdx + 1
                /\ pc' = "line"
                /\ UNCHANGED <<err, exitCode>>
  /\ UNCHANGED <<conf, group_cache, group_id, component_id>>
  /\ UNCHANGED <<remoteVars, apiLog, resolved, loopVars, mainVars>>

\* the constructor returns (line 252) and main calls agent.run() (line 253)
FinishInit ==
  /\ pc = "line"
  /\ lineIdx > Len(conf)
  /\ pc' = "run"
  /\ UNCHANGED <<startupVars, remoteVars, apiLog, resolved, loopVars, err, exitCode>>

(***************************************************************************)
(* The run loop.                                                           *)
(***************************************************************************)
ProbeIds == {probes[n].id : n \in 1..Len(probes)}
Zeros == [c \in ProbeIds |-> 0]

\* components.put(id=..., status=..., description=...), line 136
Put(id, state, description, ok) ==
  [id |-> id, status |-> state, description |-> description, ok |-> ok]

\* a slip in _update_component: the description is not passed on
UpdateComponentCallNoDescription(id, state, description, ok) ==
  Put(id, state, <<>>, ok)

\* a slip in _update_component: every update carries the outage status
UpdateComponentCallMajor(id, state, description, ok) ==
  Put(id, MajorOutage, description, ok)

\* _update_component(component_id, state, description): the call it issues
UpdateComponentCall(id, state, description, ok) ==
  Put(id, state, description, ok)

\* a slip in _update_component_exception: the wrong status code
UpdateComponentExceptionCallPartial(id, error, ok) ==
  UpdateComponentCall(id, PartialOutage, error, ok)

\* _update_component_exception(component_id, err): the call it issues
UpdateComponentExceptionCall(id, error, ok) ==
  UpdateComponentCall(id, MajorOutage, error, ok)

\* the while loop starts a pass over self._probes.items()
StartIteration ==
  /\ i' = 1
  /\ nChecks' = Zeros
  /\ nUpdates' = Zeros
  /\ cur' = NoCheck
  /\ puts' = <<>>
  /\ pc' = IF Len(probes) = 0 THEN "sleep" ELSE "check"

\* a slip in run(): the sleep is inside the for loop, which is then left
NextEntrySleepsEarly == i' = i /\ pc' = "sleep"

\* the for loop moves to the next entry, or ends and line 158 is next
NextEntry ==
  IF i < Len(probes)
    THEN i' = i + 1 /\ pc' = "check"
    ELSE i' = i /\ pc' = "sleep"

\* run() without its test for an empty registry
RunUnguarded ==
  /\ pc = "run"
  /\ StartIteration
  /\ UNCHANGED <<startupVars, remoteVars, apiLog, resolved, err, exitCode>>

\* run() is entered, lines 143-147
Run ==
  /\ pc = "run"
  /\ IF Len(probes) = 0
       THEN /\ pc' = "exit"
            /\ exitCode' = 1
            /\ UNCHANGED loopVars
       ELSE /\ StartIteration
            /\ UNCHANGED exitCode
  /\ UNCHANGED <<startupVars, remoteVars, apiLog, resolved, err>>

\* line 150: probe.check()
Check ==
  /\ pc = "check"
  /\ \E http \in HealthOutcomes, json_error_caught \in BOOLEAN :
       LET res == SpringBootCheck(http, json_error_caught)
           id == probes[i].id
       IN  /\ cur' = [id |-> id, http |-> http, res |-> res]
           /\ puts' = <<>>
           /\ nChecks' = [nChecks EXCEPT ![id] = @ + 1]
           /\ IF res.raised
                THEN pc' = "except" /\ err' = res.text
                ELSE pc' = "update" /\ err' = NoError
  /\ UNCHANGED <<startupVars, remoteVars, apiLog, resolved, i, nUpdates, exitCode>>

\* line 151: self._update_component(component_id, state, description)
UpdateComponent ==
  /\ pc = "update"
  /\ \E ok \in BOOLEAN :
       LET put == UpdateComponentCall(probes[i].id, cur.res.state, cur.res.text, ok)
       IN  /\ puts' = Append(puts, put)
           /\ nUpdates' = [nUpdates EXCEPT ![put.id] = @ + 1]
           /\ IF ok
                THEN NextEntry /\ UNCHANGED err
                ELSE /\ pc' = "except"
                     /\ err' = <<"components.put failed">>
                     /\ UNCHANGED i
  /\ UNCHANGED <<startupVars, remoteVars, apiLog, resolved, cur, nChecks, exitCode>>

\* lines 153-155: the handler reports the caught exception
UpdateComponentException ==
  /\ pc = "except"
  /\ \E ok \in BOOLEAN :
       LET put == UpdateComponentExceptionCall(probes[i].id, err, ok)
       IN  /\ puts' = Append(puts, put)
           /\ nUpdates' = [nUpdates EXCEPT ![put.id] = @ + 1]
           /\ IF ok
                THEN NextEntry /\ UNCHANGED <<err, exitCode>>
                ELSE /\ pc' = "crashed"
                     /\ err' = <<"components.put failed">>
                     /\ exitCode' = 1
                     /\ UNCHANGED i
  /\ UNCHANGED <<startupVars, remoteVars, apiLog, resolved, cur, nChecks>>

\* a slip in run(): every pass starts with an emptied group cache
SleepReloading ==
  /\ pc = "sleep"
  /\ StartIteration
  /\ group_cache' = EmptyMap
  /\ UNCHANGED <<conf, lineIdx, probes, group_id, component_id, mainVars>>
  /\ UNCHANGED <<remoteVars, apiLog, resolved, err, exitCode>>

\* line 158: time.sleep(self.CHECK_INTERVAL), then the next pass
Sleep ==
  /\ pc = "sleep"
  /\ StartIteration
  /\ UNCHANGED <<startupVars, remoteVars, apiLog, resolved, err, exitCode>>

(***************************************************************************)
(* The status page's operator deletes a group while the agent lives.       *)
(***************************************************************************)
RemoteDeleteGroup ==
  /\ pc \in StartupPcs \cup {"run"} \cup LoopPcs
  /\ \E n \in 1..Len(remoteGroups) :
       remoteGroups' =
         SubSeq(remoteGroups, 1, n - 1) \o SubSeq(remoteGroups, n + 1, Len(remoteGroups))
  /\ UNCHANGED <<startupVars, pc, nextGroupId, remoteComponents, apiLog, resolved,
                 loopVars, err, exitCode>>

AgentNext ==
  \/ Main
  \/ ReadLine
  \/ GetOrCreateGroup
  \/ GetOrCreateComponent
  \/ CreateProbe
  \/ FinishInit
  \/ Run
  \/ Check
  \/ UpdateComponent
  \/ UpdateComponentException
  \/ Sleep

Next == AgentNext \/ RemoteDeleteGroup

Spec == Init /\ [][Next]_vars

\* the same program, started with every combination of flags and variables
MainSpec == MainInit /\ [][Next]_vars

(***************************************************************************)
(* Properties of the run loop.                                             *)
(***************************************************************************)
\* the current entry has been checked and its handling is over
EntryDone == cur.id # 0 /\ pc \in {"check", "sleep", "crashed"}

\* C1: when the handler's exception report (_update_component_exception) for
\* an entry fails too, the failure is swallowed: the for loop goes on with
\* the next entry of the same pass (or to the sleep after the last entry),
\* and run() is not left.
ExceptionReportFailureSwallowed ==
  [][(pc = "except" /\ puts' # puts /\ ~puts'[Len(puts')].ok)
       => IF i < Len(probes)
            THEN pc' = "check" /\ i' = i + 1
            ELSE pc' = "sleep"]_vars

\* C2: once run() loops over a non-empty registry it never stops on its own:
\* whatever the probes and the status updates do, the process stays in the
\* loop (checking, updating, handling, sleeping), so that every pass reaches
\* its sleep and every entry is checked again in the next pass.
RunLoopNeverLeft == [][(pc \in LoopPcs) => (pc' \in LoopPcs)]_vars

\* the answer is a JSON object without the top-level status field
LacksCoreStatus(http) ==
  http.kind = "json" /\ http.data.t = "obj" /\ ~HasKey(http.data, STATUS)

\* C3: when an exception escapes probe.check() for a component (as it does
\* for an answer without the top-level status field), exactly one update is
\* issued for that component in the pass: Major Outage with the error's
\* message as description; no Operational or Partial Outage update is issued.
ProbeExceptionReported ==
  /\ (cur.id # 0 /\ LacksCoreStatus(cur.http)) => cur.res.raised
  /\ (cur.id # 0 /\ cur.res.raised) =>
       /\ \A n \in 1..Len(puts) :
            /\ puts[n].id = cur.id
            /\ puts[n].status \notin {Operational, PartialOutage}
       /\ pc # "except" =>
            /\ Len(puts) = 1
            /\ puts[1].status = MajorOutage
            /\ puts[1].description = cur.res.text
            /\ nUpdates[cur.id] = 1

\* C3 witness: the answer lacked the status field, check() raised KeyError
\* and the handler has issued its report.
ProbeExceptionReportedWitness ==
  /\ EntryDone
  /\ LacksCoreStatus(cur.http)
  /\ cur.res.raised
  /\ Len(puts) = 1
  /\ puts[1].description = <<"'status'">>

(***************************************************************************)
(* Properties of entity resolution.                                        *)
(***************************************************************************)
\* the calls of apiLog with this operation
CallsOf(op) == {n \in 1..Len(apiLog) : apiLog[n].op = op}

\* C4: resolving the same (group, component) names again returns the same
\* component id, and no group and no component is created twice: at most
\* one create-group call per group name and at most one create-component
\* call per component name and group.
ResolutionIdempotent ==
  /\ \A a, b \in 1..Len(resolved) :
       (resolved[a].group = resolved[b].group
          /\ resolved[a].component = resolved[b].component)
         => resolved[a].component_id = resolved[b].component_id
  /\ \A a, b \in CallsOf("groups.post") :
       apiLog[a].name = apiLog[b].name => a = b
  /\ \A a, b \in CallsOf("components.post") :
       (apiLog[a].name = apiLog[b].name
          /\ apiLog[a].group_id = apiLog[b].group_id) => a = b

\* C4 witness: a pair was resolved twice, the first time creating both its
\* group and its component.
ResolutionIdempotentWitness ==
  /\ Len(resolved) = 2
  /\ resolved[1].group = resolved[2].group
  /\ resolved[1].component = resolved[2].component
  /\ Cardinality(CallsOf("groups.post")) = 1
  /\ Cardinality(CallsOf("components.post")) = 1
  /\ Cardinality(CallsOf("components.get")) = 2

\* C5: a group-cache entry is never changed or removed; a name the cache
\* holds is resolved to the cached id without any call of the status page,
\* whatever the status page holds by then; and no group name is listed
\* twice, so the list calls number at most the distinct group names.
GroupCacheWriteOnce ==
  [][/\ \A g \in DOMAIN group_cache :
          g \in DOMAIN group_cache' /\ group_cache'[g] = group_cache[g]
     /\ (pc = "group" /\ pc' # "group" /\ Parts[1] \in DOMAIN group_cache)
          => /\ pc' = "component"
             /\ group_id' = group_cache[Parts[1]]
             /\ apiLog' = apiLog
             /\ remoteGroups' = remoteGroups
     /\ \A a, b \in 1..Len(apiLog') :
          (apiLog'[a].op = "groups.get" /\ apiLog'[b].op = "groups.get"
             /\ apiLog'[a].name = apiLog'[b].name) => a = b]_vars

\* C5 witness: the second line's group was taken from the cache (one list
\* call in all) although the status page no longer holds a group of that
\* name.
GroupCacheWriteOnceWitness ==
  /\ pc = "component"
  /\ lineIdx = 2
  /\ Len(resolved) = 1
  /\ resolved[1].group = Parts[1]
  /\ group_id = resolved[1].group_id
  /\ GroupsNamed(Parts[1]) = <<>>
  /\ Cardinality(CallsOf("groups.get")) = 1

(***************************************************************************)
(* Properties of SpringBootProbe.check.                                    *)
(***************************************************************************)
\* C6 as amended: a transport failure of the GET (connection refused,
\* timeout) never escapes check(): it returns Major Outage with the
\* stringified error, which is not empty; an exception escapes check() only
\* after an answer was received (a body that cannot be parsed or that lacks
\* the fields check() reads).
CheckReturnsTransportFailure ==
  cur.id # 0 =>
    /\ cur.http.kind = "error" =>
         /\ ~cur.res.raised
         /\ cur.res.state = MajorOutage
         /\ cur.res.text = cur.http.msg
         /\ cur.res.text # <<>>
    /\ cur.res.raised => cur.http.kind \in {"unparseable", "json"}

\* C6 witness: the target refused the connection and check() returned.
CheckReturnsTransportFailureWitness ==
  /\ cur.id # 0
  /\ cur.http = HttpError(<<"Connection refused">>)
  /\ cur.res = Returned(MajorOutage, <<"Connection refused">>)
  /\ pc = "update"

\* C6 as stated: check() never raises, whatever the GET does, and a
\* transport failure comes back as Major Outage with a non-empty description.
CheckNeverRaises ==
  cur.id # 0 =>
    /\ ~cur.res.raised
    /\ cur.http.kind = "error" =>
         cur.res.state = MajorOutage /\ cur.res.text # <<>>

\* a well-formed health answer: an object with a top-level status string
\* whose other entries are objects, each with or without a status string
WellFormed(data) ==
  /\ data.t = "obj"
  /\ HasKey(data, STATUS)
  /\ Lookup(data, STATUS).t = "str"
  /\ \A n \in 1..Len(data.f) :
       data.f[n].k # STATUS =>
         /\ data.f[n].v.t = "obj"
         /\ HasKey(data.f[n].v, STATUS) => Lookup(data.f[n].v, STATUS).t = "str"

\* the entries of a well-formed answer that are sub-objects with a status
Reporting(data) ==
  LET Carries(e) == e.k # STATUS /\ HasKey(e.v, STATUS)
  IN  SelectSeq(data.f, Carries)

\* "<name>: <status>\n" for each of these entries, in order
RECURSIVE StatusLines(_)
StatusLines(entries) ==
  IF entries = <<>> THEN <<>>
  ELSE Head(entries).k \o <<": ">> \o Lookup(Head(entries).v, STATUS).s
         \o <<"\n">> \o StatusLines(Tail(entries))

\* C7: for every well-formed health answer check() returns Operational
\* exactly when the core status and every sub-object status are "UP", and
\* Partial Outage otherwise, with the description "Core: <core status>"
\* followed by one line "<name>: <status>" per sub-object that carries a
\* status and by no other line.
WellFormedAnswerDerivesStatus ==
  (cur.id # 0 /\ cur.http.kind = "json" /\ WellFormed(cur.http.data)) =>
    LET data == cur.http.data
        core == Lookup(data, STATUS).s
        subs == Reporting(data)
        all_up ==
          /\ core = UP
          /\ \A n \in 1..Len(subs) : Lookup(subs[n].v, STATUS).s = UP
    IN  /\ ~cur.res.raised
        /\ cur.res.state = IF all_up THEN Operational ELSE PartialOutage
        /\ cur.res.text = <<"Core: ">> \o core \o <<"\n">> \o StatusLines(subs)

(***************************************************************************)
(* Properties of the run loop (continued) and of construction.             *)
(***************************************************************************)
\* C8: when check() returned a pair for an entry, exactly one update is
\* issued with that entry's id and exactly the pair this check returned;
\* when that update succeeds it stays the only update for the component in
\* the pass.  For an unreachable target the pair is Major Outage with the
\* stringified connection error.
UpdateCarriesCheckResult ==
  (cur.id # 0 /\ ~cur.res.raised /\ pc # "update") =>
    /\ Len(puts) >= 1
    /\ puts[1].id = cur.id
    /\ puts[1].status = cur.res.state
    /\ puts[1].description = cur.res.text
    /\ cur.http.kind = "error" =>
         puts[1].status = MajorOutage /\ puts[1].description = cur.http.msg
    /\ puts[1].ok => (Len(puts) = 1 /\ nUpdates[cur.id] = 1 /\ nChecks[cur.id] = 1)

\* C8 witness: an unreachable target was checked and its one update went
\* through.
UpdateCarriesCheckResultWitness ==
  /\ EntryDone
  /\ cur.http = HttpError(<<"Connection refused">>)
  /\ puts = <<Put(cur.id, MajorOutage, <<"Connection refused">>, TRUE)>>
  /\ nUpdates[cur.id] = 1

\* C9: with an empty registry run() exits at once with a non-zero status:
\* nothing is checked, no update is issued and the process never sleeps.
EmptyRegistryExits ==
  (Len(probes) = 0 /\ pc \notin StartupPcs \cup {"aborted"}) =>
    /\ pc \in {"run", "exit"}
    /\ pc = "exit" => exitCode # 0
    /\ cur = NoCheck
    /\ puts = <<>>
    /\ i = 0

\* C9 witness: the configuration gave no probe and run() has exited.
EmptyRegistryExitsWitness ==
  /\ pc = "exit"
  /\ exitCode = 1
  /\ Len(probes) = 0
  /\ Len(conf) > 0

\* a line that is neither blank nor a comment and has too few fields, an
\* empty group or component name, an unsupported probe kind, or no
\* (non-empty) URL
Malformed(line) ==
  LET fields == MapStrip(Split(Strip(line), ","))
  IN  /\ Strip(line) # <<>>
      /\ Head(Strip(line)) # "#"
      /\ IF Len(fields) < 3 THEN TRUE
         ELSE \/ fields[1] = <<>>
              \/ fields[2] = <<>>
              \/ fields[3] # SpringBoot
              \/ Len(fields) < 4
              \/ (Len(fields) >= 4 /\ fields[4] = <<>>)

\* the lines before line n that are neither blank nor comments
Effective(n) ==
  {k \in 1..(n - 1) : Strip(conf[k]) # <<>> /\ Head(Strip(conf[k])) # "#"}

\* C10: construction never gets past a malformed line (it ends there with
\* an error, so run() is never entered), and such a line contributes no
\* entry: every registry entry holds the URL of a well-formed line read
\* before.
MalformedLineRejected ==
  /\ \A k \in 1..Len(conf) :
       Malformed(conf[k]) =>
         /\ lineIdx <= k
         /\ pc \in StartupPcs \cup {"aborted"}
  /\ \A n \in 1..Len(probes) :
       \E k \in Effective(lineIdx) :
         /\ ~Malformed(conf[k])
         /\ probes[n].probe.check_url = MapStrip(Split(Strip(conf[k]), ","))[4]
  /\ Len(probes) <= Cardinality(Effective(lineIdx))

\* C10 witness: the second line is malformed and construction has ended
\* with its error, after the first line gave the registry its entry.
MalformedLineRejectedWitness ==
  /\ pc = "aborted"
  /\ lineIdx = 2
  /\ Malformed(conf[2])
  /\ Len(probes) = 1
  /\ err = <<"Invalid URL">>

\* C11: start-up is fail-fast: when a configuration line has failed (a
\* malformed line, or a failed group or component call) the run loop is
\* never entered: no probe is checked and no status update is issued,
\* whatever the earlier lines put into the registry.
StartupFailFast ==
  /\ (\E n \in 1..Len(apiLog) : ~apiLog[n].ok) => pc = "aborted"
  /\ (\E k \in 1..Len(conf) : Malformed(conf[k])) =>
       pc \in StartupPcs \cup {"aborted"}
  /\ pc \in StartupPcs \cup {"aborted"} =>
       /\ cur = NoCheck
       /\ puts = <<>>
       /\ i = 0
       /\ \A c \in DOMAIN nUpdates : nUpdates[c] = 0

\* C11 witness: the first line gave the registry an entry, a call of the
\* status page failed on the second, and construction has ended there.
StartupFailFastWitness ==
  /\ pc = "aborted"
  /\ lineIdx = 2
  /\ Len(probes) = 1
  /\ apiLog # <<>>
  /\ ~apiLog[Len(apiLog)].ok

\* the first atom of the line holding position p that is not whitespace
LineStart(text, p) ==
  CHOOSE s \in 1..p :
    /\ s = 1 \/ text[s - 1] \in {"\r", "\n"}
    /\ \A q \in s..(p - 1) : text[q] \notin {"\r", "\n"}

FirstInk(text, s) ==
  CHOOSE q \in s..Len(text) :
    /\ text[q] \notin Whitespace
    /\ \A r \in s..(q - 1) : text[r] \in Whitespace

\* the text holds only blank lines, whitespace and lines that start with '#'
OnlyBlankOrComments(text) ==
  \A p \in 1..Len(text) :
    text[p] \notin Whitespace => text[FirstInk(text, LineStart(text, p))] = "#"

\* C12: a configuration (the lines of the file, or the data block of the
\* environment, split on CR and LF) that holds only blank lines, whitespace
\* and comment lines gives an empty registry and no call of the status page.
CommentsOnlyGivesNothing ==
  (IF environ.AGENT_CONFIGURATION.set
     THEN OnlyBlankOrComments(environ.AGENT_CONFIGURATION.val)
     ELSE \A k \in 1..Len(conf) : OnlyBlankOrComments(conf[k]))
  => /\ probes = <<>>
     /\ apiLog = <<>>
     /\ resolved = <<>>
     /\ pc \notin {"group", "component", "probe", "aborted"}

\* C12 witness: a data block of a comment, a whitespace line and a
\* commented-out probe line has been read to its end.
CommentsOnlyGivesNothingWitness ==
  /\ environ.AGENT_CONFIGURATION.set
  /\ OnlyBlankOrComments(environ.AGENT_CONFIGURATION.val)
  /\ Len(conf) = 3
  /\ lineIdx = 4
  /\ pc = "run"

(***************************************************************************)
(* Properties of main().                                                   *)
(***************************************************************************)
\* C13: the endpoint and the token the agent is constructed with are the
\* command-line flag's values whenever the flag is given; the environment
\* variable is used only when the flag is absent.
FlagWinsOverEnvironment ==
  /\ endpoint.set =>
       endpoint = IF args.endpoint.set THEN args.endpoint
                                       ELSE environ.CACHET_ENDPOINT
  /\ api_token.set =>
       api_token = IF args.api_token.set THEN args.api_token
                                         ELSE environ.CACHET_API_TOKEN

\* neither the flag nor the variable gives the endpoint, or the token
ParameterMissing ==
  \/ ~args.endpoint.set /\ ~environ.CACHET_ENDPOINT.set
  \/ ~args.api_token.set /\ ~environ.CACHET_API_TOKEN.set

\* C14: when the endpoint or the token is missing, main() exits with a
\* non-zero status before the agent is constructed: no configuration line is
\* read, no group or component call is made and no probe is checked.
MissingParameterExits ==
  ParameterMissing =>
    /\ pc \in {"main", "exit"}
    /\ pc = "exit" => exitCode # 0
    /\ ~endpoint.set /\ ~api_token.set
    /\ lineIdx = 1
    /\ apiLog = <<>>
    /\ probes = <<>>
    /\ cur = NoCheck
    /\ puts = <<>>

\* C14 witness: the endpoint is given, the token is not, the file holds a
\* well-formed probe line, and main() has exited.
MissingParameterExitsWitness ==
  /\ ParameterMissing
  /\ args.endpoint.set
  /\ Len(conf) = 1
  /\ ~Malformed(conf[1])
  /\ Strip(conf[1]) # <<>>
  /\ Head(Strip(conf[1])) # "#"
  /\ pc = "exit"
  /\ exitCode = 1

(***************************************************************************)
(* Properties of the run loop and of the registry.                         *)
(***************************************************************************)
\* the current entry's check returned Operational or Partial Outage
CheckReturnedUpOrPartial ==
  /\ cur # NoCheck
  /\ ~cur.res.raised
  /\ cur.res.state \in {Operational, PartialOutage}

\* C15 as stated: after a check that returned Operational or Partial
\* Outage, no update of that entry carries Major Outage, even when the
\* status update call fails.
NoMajorOutageAfterReturnedCheck ==
  CheckReturnedUpOrPartial =>
    \A n \in 1..Len(puts) : puts[n].status # MajorOutage

\* C15: after a check that returned Operational or Partial Outage, an update
\* with Major Outage is issued for the entry only when the status update
\* call itself failed: it is then the handler's single report, the second
\* update of the entry, for the same component, and it carries the update
\* error's message.
MajorOutageOnlyAfterFailedUpdate ==
  CheckReturnedUpOrPartial =>
    /\ Len(puts) <= 2
    /\ Len(puts) >= 1 =>
         /\ puts[1].id = cur.id
         /\ puts[1].status = cur.res.state
    /\ Len(puts) = 2 =>
         /\ ~puts[1].ok
         /\ puts[2] = Put(cur.id, MajorOutage, <<"components.put failed">>, puts[2].ok)

\* C15 witness: the check returned Operational, the status update failed,
\* and the handler has pushed Major Outage for the component.
MajorOutageOnlyAfterFailedUpdateWitness ==
  /\ cur # NoCheck
  /\ ~cur.res.raised
  /\ cur.res.state = Operational
  /\ Len(puts) = 2
  /\ puts[2].status = MajorOutage
  /\ puts[2].ok
  /\ pc \in {"check", "sleep"}

\* C16 as stated: while a line that will be rejected is processed, no group
\* and no component is created on the status page.
RejectedLineCreatesNothing ==
  [][(/\ pc \in {"line", "group", "component", "probe"}
      /\ lineIdx <= Len(conf)
      /\ Malformed(conf[lineIdx]))
     => \A n \in (Len(apiLog) + 1)..Len(apiLog') :
          apiLog'[n].op \notin {"groups.post", "components.post"}]_vars

\* the registry positions whose entry the current pass is done with
Processed == {n \in 1..Len(probes) : n < i \/ (n = i /\ pc = "sleep")}

\* C17: the run loop handles one registry entry at a time, in registry
\* order: the entries before the current one have been checked once and
\* updated, the entries after it have been neither checked nor updated, the
\* updates issued since the last check are all for the entry checked, and
\* the sleep is reached only when every entry has been checked once.
StrictlySequential ==
  pc \in LoopPcs =>
    /\ i \in 1..Len(probes)
    /\ DOMAIN nChecks = ProbeIds /\ DOMAIN nUpdates = ProbeIds
    /\ \A n \in 1..Len(probes) :
         /\ n \in Processed =>
              /\ nChecks[probes[n].id] = 1
              /\ nUpdates[probes[n].id] \in {1, 2}
         /\ n > i =>
              /\ nChecks[probes[n].id] = 0
              /\ nUpdates[probes[n].id] = 0
    /\ pc = "check" =>
         /\ nChecks[probes[i].id] = 0
         /\ nUpdates[probes[i].id] = 0
    /\ pc \in {"update", "except"} =>
         /\ nChecks[probes[i].id] = 1
         /\ cur.id = probes[i].id
         /\ nUpdates[probes[i].id] = Len(puts)
         /\ pc = "update" => puts = <<>>
    /\ cur # NoCheck => \A n \in 1..Len(puts) : puts[n].id = cur.id
    /\ pc = "sleep" =>
         /\ i = Len(probes)
         /\ \A c \in ProbeIds : nChecks[c] = 1 /\ nUpdates[c] >= 1

\* C17 witness: a pass over two entries has ended; the first entry took the
\* handler's report as well, the second a single update.
StrictlySequentialWitness ==
  /\ pc = "sleep"
  /\ Len(probes) = 2
  /\ nUpdates[probes[1].id] = 2
  /\ nUpdates[probes[2].id] = 1
  /\ nChecks[probes[1].id] = 1
  /\ nChecks[probes[2].id] = 1

\* C18: once run() is entered, no step changes the registry or the group
\* cache, and no step issues a group or component lookup or creation.
RunLoopReadOnly ==
  [][(pc \in {"run"} \cup LoopPcs) =>
       /\ probes' = probes
       /\ group_cache' = group_cache
       /\ apiLog' = apiLog
       /\ resolved' = resolved]_vars

\* C18 witness: a pass has ended with updates issued, the registry and the
\* cache hold what construction left, and the operator has since deleted
\* every group of the status page.
RunLoopReadOnlyWitness ==
  /\ pc = "sleep"
  /\ puts # <<>>
  /\ Len(probes) = 2
  /\ DOMAIN group_cache # {}
  /\ apiLog # <<>>
  /\ remoteGroups = <<>>

\* the effective lines read so far: the registry has taken each one's probe
Done == Cardinality(Effective(lineIdx))

\* the k-th line that is neither blank nor a comment
LineOf(k) ==
  CHOOSE n \in 1..Len(conf) :
    /\ Strip(conf[n]) # <<>>
    /\ Head(Strip(conf[n])) # "#"
    /\ Cardinality(Effective(n)) = k - 1

\* the lines read so far that resolved to component id c, by their rank
LinesOf(c) == {k \in 1..Done : resolved[k].component_id = c}

Last(S) == CHOOSE k \in S : \A j \in S : j <= k

\* C19: the registry holds one probe per component id: its ids are
\* distinct and are exactly the ids the lines read so far resolved to, each
\* entry's probe is the one of the last line that resolved to its id, and a
\* pass checks no id more than once.
OneProbePerComponent ==
  pc # "main" =>
    /\ Done <= Len(resolved)
    /\ \A m, n \in 1..Len(probes) : probes[m].id = probes[n].id => m = n
    /\ ProbeIds = {resolved[k].component_id : k \in 1..Done}
    /\ Len(probes) = Cardinality({resolved[k].component_id : k \in 1..Done})
    /\ \A n \in 1..Len(probes) :
         probes[n].probe.check_url =
           ConfigParts(Strip(conf[LineOf(Last(LinesOf(probes[n].id)))]))[4]
    /\ pc \in LoopPcs => \A c \in ProbeIds : nChecks[c] <= 1

\* C19 witness: two lines named the same group and component with different
\* URLs; the registry holds one entry, with the second line's URL, and a
\* pass has checked it once.
OneProbePerComponentWitness ==
  /\ pc = "sleep"
  /\ Len(resolved) = 2
  /\ resolved[1].component_id = resolved[2].component_id
  /\ ConfigParts(Strip(conf[LineOf(1)]))[4] # ConfigParts(Strip(conf[LineOf(2)]))[4]
  /\ Len(probes) = 1
  /\ probes[1].probe.check_url = ConfigParts(Strip(conf[LineOf(2)]))[4]
  /\ nChecks[probes[1].id] = 1

====
